---------------------------- MODULE Spec2Model ----------------------------
(***************************************************************************)
(* A model of tfs-unbind (src/tfs/unbinder.py, src/tfs/libs.py).           *)
(*                                                                         *)
(* Text is modelled as sequences of atoms.  Every atom stands for a fixed  *)
(* run of characters ("GlobalSection", ".sln", "proj", one blank, ...) and *)
(* no atom is a prefix, a suffix or a part of another, so that Python's    *)
(* str.startswith, str.endswith and the `in` test on the characters agree  *)
(* with the same tests on the atoms.  "EndGlobalSection" is the two atoms  *)
(* "End" "GlobalSection": it contains "GlobalSection" and does not start   *)
(* with it.                                                                *)
(***************************************************************************)
EXTENDS Integers, Sequences, FiniteSets, TLC

VARIABLES
    \* the loop of _update_sln / _update_proj over one file: which of the two,
    \* the lines of in_fp, how many were read, the flag, the lines written
    f_kind, in_fp, f_pos, in_vcs_region, out_fp,
    \* the process working directory, and libs.chdir's saved directory and
    \* yielded value
    cwd, _orig_dir, current_dir,
    \* libs.chdir alone: the directories on disk, the argument, where the
    \* context manager stands, the exception in flight
    ch_dirs, directory, ch_pc, ch_exc,
    \* one rewrite (open_inout, the loop, copystat, move): the platform, the
    \* arguments of open_inout, the file at the original path and at the
    \* ".new" path, the open handles, the step, the exception in flight, the
    \* content the original path held at the start
    posix, rw_args, rw_orig, rw_new, rw_open, rw_pc, rw_exc, rw_content0,
    \* the file system, and the lists _collect returns / _delete is given
    fs, del_dirs, del_files, sln_files, csproj_files,
    \* _delete alone: the step, the entries handled so far, the exception in
    \* flight, the warnings logged, the removals by others still to come
    d_pc, d_pos, d_exc, d_log, d_others,
    \* unbind: its arguments, the phase, the exception in flight, the run
    \* (first or second), the file system before the first run and after it
    orig_dir, dest_dir, ub_pc, ub_exc, ub_run, fs_start, fs_first

filterVars == <<f_kind, in_fp, f_pos, in_vcs_region, out_fp>>
procVars == <<cwd, _orig_dir, current_dir>>
chdirVars == <<ch_dirs, directory, ch_pc, ch_exc>>
rewriteVars == <<posix, rw_args, rw_orig, rw_new, rw_open, rw_pc, rw_exc, rw_content0>>
treeVars == <<fs, del_dirs, del_files, sln_files, csproj_files>>
deleteVars == <<d_pc, d_pos, d_exc, d_log, d_others>>
unbindVars == <<orig_dir, dest_dir, ub_pc, ub_exc, ub_run, fs_start, fs_first>>

vars == <<filterVars, procVars, chdirVars, rewriteVars, treeVars, deleteVars, unbindVars>>

---------------------------------------------------------------------------
(* Strings *)

SP == " "
NL == "\n"
Whitespace == {SP, NL}

startswith(s, prefix) ==
    /\ Len(prefix) <= Len(s)
    /\ SubSeq(s, 1, Len(prefix)) = prefix

endswith(s, suffix) ==
    /\ Len(suffix) <= Len(s)
    /\ SubSeq(s, Len(s) - Len(suffix) + 1, Len(s)) = suffix

contains(s, sub) ==
    \E i \in 1..(Len(s) - Len(sub) + 1) : SubSeq(s, i, i + Len(sub) - 1) = sub

\* str.strip(): without its leading and trailing whitespace
strip(s) ==
    LET nonws == {i \in 1..Len(s) : s[i] \notin Whitespace}
    IN  IF nonws = {} THEN <<>>
        ELSE LET lo == CHOOSE i \in nonws : \A j \in nonws : i <= j
                 hi == CHOOSE i \in nonws : \A j \in nonws : j <= i
             IN  SubSeq(s, lo, hi)

GlobalSection == <<"GlobalSection">>
VersionControl == <<"VersionControl">>
EndGlobalSection == <<"End", "GlobalSection">>
SccTag == <<"<", "Scc">>

---------------------------------------------------------------------------
(* The lines the model's files are made of *)

LPlain == <<"Project", NL>>
LOpen == <<SP, "GlobalSection", "(", "Tfs", "VersionControl", ")", NL>>
LInner == <<SP, SP, "SccNumberOfProjects", NL>>
LClose == <<SP, "End", "GlobalSection", NL>>
LOtherOpen == <<SP, "GlobalSection", "(", "Config", ")", NL>>
LOpenClose == <<"GlobalSection", "(", "VersionControl", ")", SP, "End", "GlobalSection", NL>>
LMention == <<"Project", "VersionControl", NL>>
LScc == <<SP, "<", "Scc", "ProjectName", ">", NL>>
LTag == <<SP, "<", "PropertyGroup", ">", NL>>

SlnLines == {LPlain, LOpen, LInner, LClose, LOtherOpen, LOpenClose, LMention}
ProjLines == {LScc, LTag, LPlain}

MaxLines == 4

RECURSIVE SeqsUpTo(_, _)
SeqsUpTo(S, n) ==
    IF n = 0 THEN {<<>>}
    ELSE LET shorter == SeqsUpTo(S, n - 1)
         IN  shorter \cup {Append(t, x) : t \in {u \in shorter : Len(u) = n - 1}, x \in S}

---------------------------------------------------------------------------
(* _update_sln and _update_proj: the body of `for line in in_fp` *)

\* a loop body without lines 162-163: the flag is never cleared
SlnLine_Mut(region, line) ==
    LET stripped == strip(line)
        r1 == region \/ (startswith(stripped, GlobalSection) /\ contains(stripped, VersionControl))
    IN  [region |-> r1, written |-> IF r1 THEN <<>> ELSE <<line>>]

\* lines 154-163: one pass of the loop body of _update_sln on `line`, entered
\* with the flag `region`: the flag afterwards and what was written to out_fp
SlnLine(region, line) ==
    LET stripped == strip(line)
        r1 == region \/ (startswith(stripped, GlobalSection) /\ contains(stripped, VersionControl))
        w  == IF ~r1 THEN <<line>> ELSE <<>>
        r2 == IF r1 /\ contains(stripped, EndGlobalSection) THEN FALSE ELSE r1
    IN  [region |-> r2, written |-> w]

\* lines 182-185: one pass of the loop body of _update_proj on `line`
ProjLine(line) ==
    LET stripped == strip(line)
    IN  IF ~startswith(stripped, SccTag) THEN <<line>> ELSE <<>>

\* The whole loop, from the flag `region`.
RECURSIVE SlnFilterFrom(_, _)
SlnFilterFrom(region, lines) ==
    IF lines = <<>> THEN <<>>
    ELSE LET r == SlnLine(region, Head(lines))
         IN  r.written \o SlnFilterFrom(r.region, Tail(lines))

SlnFilter(lines) == SlnFilterFrom(FALSE, lines)

RECURSIVE ProjFilter(_)
ProjFilter(lines) ==
    IF lines = <<>> THEN <<>> ELSE ProjLine(Head(lines)) \o ProjFilter(Tail(lines))

---------------------------------------------------------------------------
(* Variables a specification does not use stay at these values *)

FilterIdle ==
    /\ f_kind = "none" /\ in_fp = <<>> /\ f_pos = 0
    /\ in_vcs_region = FALSE /\ out_fp = <<>>

ProcIdle == cwd = <<>> /\ _orig_dir = <<>> /\ current_dir = <<>>

ChdirIdle == ch_dirs = {} /\ directory = <<>> /\ ch_pc = "idle" /\ ch_exc = "none"

RewriteIdle ==
    /\ posix = TRUE /\ rw_args = <<>> /\ rw_orig = <<>> /\ rw_new = <<>>
    /\ rw_open = {} /\ rw_pc = "idle" /\ rw_exc = "none" /\ rw_content0 = <<>>

TreeIdle ==
    /\ fs = <<>> /\ del_dirs = <<>> /\ del_files = <<>>
    /\ sln_files = <<>> /\ csproj_files = <<>>

DeleteIdle == d_pc = "idle" /\ d_pos = 0 /\ d_exc = "none" /\ d_log = <<>> /\ d_others = 0

UnbindIdle ==
    /\ orig_dir = <<>> /\ dest_dir = <<>> /\ ub_pc = "idle" /\ ub_exc = "none"
    /\ ub_run = 0 /\ fs_start = <<>> /\ fs_first = <<>>

---------------------------------------------------------------------------
(* SpecFilter: one file streamed through the loop, line by line *)

FilterInit ==
    /\ f_kind \in {"sln", "proj"}
    /\ in_fp \in (IF f_kind = "sln" THEN SeqsUpTo(SlnLines, MaxLines)
                                   ELSE SeqsUpTo(ProjLines, MaxLines))
    /\ f_pos = 0
    /\ in_vcs_region = FALSE
    /\ out_fp = <<>>
    /\ ProcIdle /\ ChdirIdle /\ RewriteIdle /\ TreeIdle /\ DeleteIdle /\ UnbindIdle

FilterFrame ==
    UNCHANGED <<procVars, chdirVars, rewriteVars, treeVars, deleteVars, unbindVars>>

\* lines 153-163, one pass
SlnStep ==
    /\ f_kind = "sln"
    /\ f_pos < Len(in_fp)
    /\ LET r == SlnLine(in_vcs_region, in_fp[f_pos + 1])
       IN  /\ in_vcs_region' = r.region
           /\ out_fp' = out_fp \o r.written
    /\ f_pos' = f_pos + 1
    /\ UNCHANGED <<f_kind, in_fp>>
    /\ FilterFrame

\* lines 181-185, one pass
ProjStep ==
    /\ f_kind = "proj"
    /\ f_pos < Len(in_fp)
    /\ out_fp' = out_fp \o ProjLine(in_fp[f_pos + 1])
    /\ f_pos' = f_pos + 1
    /\ UNCHANGED <<f_kind, in_fp, in_vcs_region>>
    /\ FilterFrame

FilterNext == SlnStep \/ ProjStep

SpecFilter == FilterInit /\ [][FilterNext]_vars

---------------------------------------------------------------------------
(* Paths.  An absolute path is the sequence of its components below "/";   *)
(* a path argument says whether it is absolute and lists its components,   *)
(* which may be "." and "..".                                              *)

None == [abs |-> FALSE, parts |-> <<"None">>]
AbsPath(parts) == [abs |-> TRUE, parts |-> parts]
RelPath(parts) == [abs |-> FALSE, parts |-> parts]

\* os.path.normpath on the components
RECURSIVE normpath(_)
normpath(parts) ==
    IF parts = <<>> THEN <<>>
    ELSE LET front == normpath(SubSeq(parts, 1, Len(parts) - 1))
             last  == parts[Len(parts)]
         IN  IF last = "." THEN front
             ELSE IF last = ".."
                  THEN (IF front = <<>> THEN <<>> ELSE SubSeq(front, 1, Len(front) - 1))
                  ELSE Append(front, last)

\* os.path.abspath(p) with the process working directory at `wd`
abspath(wd, p) == IF p.abs THEN normpath(p.parts) ELSE normpath(wd \o p.parts)

\* p is q or lies below q
Under(p, q) == Len(p) >= Len(q) /\ SubSeq(p, 1, Len(q)) = q
Below(p, q) == Len(p) > Len(q) /\ SubSeq(p, 1, Len(q)) = q
Parent(p) == SubSeq(p, 1, Len(p) - 1)

\* libs.chdir, line 58: os.path.abspath(directory), evaluated after
\* os.chdir(directory) has moved the process from `wd` into the directory
chdir_yield(wd, d) == abspath(abspath(wd, d), d)

---------------------------------------------------------------------------
(* SpecChdir: libs.chdir around a body that may remove directories (as     *)
(* _delete does) and then returns or raises                                *)

ChDirUniverse ==
    { <<>>, <<"w">>, <<"w", "d">>, <<"w", "d", "d">>, <<"w", "d", "Debug">>, <<"w", "o">> }
ChFiles == { <<"w", "f">> }
ChArgs ==
    {None}
    \cup {AbsPath(p) : p \in (ChDirUniverse \cup ChFiles) \ {<<>>}}
    \cup {RelPath(p) : p \in {<<"d">>, <<"w">>, <<".">>, <<"..">>, <<"f">>, <<"Debug">>}}

ParentClosed(D) == \A p \in D : p = <<>> \/ Parent(p) \in D

ChdirInit ==
    /\ ch_dirs \in {D \in SUBSET ChDirUniverse : <<"w">> \in D /\ ParentClosed(D)}
    /\ cwd \in ch_dirs
    /\ directory \in ChArgs
    /\ _orig_dir = <<>>
    /\ current_dir = <<>>
    /\ ch_pc = "call"
    /\ ch_exc = "none"
    /\ FilterIdle /\ RewriteIdle /\ TreeIdle /\ DeleteIdle /\ UnbindIdle

ChdirFrame == UNCHANGED <<filterVars, rewriteVars, treeVars, deleteVars, unbindVars>>

\* os.path.exists
ch_exists(p) == abspath(cwd, p) \in ch_dirs \cup ChFiles

\* lines 52-58: the guard, the save, os.chdir and the yield
ChdirEnter ==
    /\ ch_pc = "call"
    /\ IF directory = None \/ ~ch_exists(directory)
       THEN /\ ch_pc' = "left"
            /\ ch_exc' = "ValueError"
            /\ UNCHANGED <<cwd, _orig_dir, current_dir>>
       ELSE /\ _orig_dir' = abspath(cwd, RelPath(<<".">>))
            /\ IF abspath(cwd, directory) \in ch_dirs
               THEN /\ cwd' = abspath(cwd, directory)
                    /\ current_dir' = chdir_yield(cwd, directory)
                    /\ ch_pc' = "body"
                    /\ ch_exc' = "none"
               ELSE \* os.chdir on a file raises inside the try
                    /\ ch_pc' = "finally"
                    /\ ch_exc' = "NotADirectoryError"
                    /\ UNCHANGED <<cwd, current_dir>>
    /\ UNCHANGED <<ch_dirs, directory>>
    /\ ChdirFrame

\* the body removes a directory tree below the directory it works in
BodyRmtree ==
    /\ ch_pc = "body"
    /\ \E p \in ch_dirs :
          /\ Below(p, cwd)
          /\ ch_dirs' = {q \in ch_dirs : ~Under(q, p)}
    /\ UNCHANGED <<cwd, directory, _orig_dir, current_dir, ch_pc, ch_exc>>
    /\ ChdirFrame

BodyReturn ==
    /\ ch_pc = "body"
    /\ ch_pc' = "finally"
    /\ UNCHANGED <<ch_dirs, cwd, directory, _orig_dir, current_dir, ch_exc>>
    /\ ChdirFrame

BodyRaise ==
    /\ ch_pc = "body"
    /\ ch_pc' = "finally"
    /\ ch_exc' = "BodyError"
    /\ UNCHANGED <<ch_dirs, cwd, directory, _orig_dir, current_dir>>
    /\ ChdirFrame

\* a context manager that restores only after a body that returned
ChdirFinally_Mut ==
    /\ ch_pc = "finally"
    /\ ch_pc' = "left"
    /\ IF ch_exc # "none" THEN UNCHANGED <<cwd, ch_exc>>
       ELSE IF _orig_dir \in ch_dirs
            THEN cwd' = _orig_dir /\ UNCHANGED ch_exc
            ELSE ch_exc' = "FileNotFoundError" /\ UNCHANGED cwd
    /\ UNCHANGED <<ch_dirs, directory, _orig_dir, current_dir>>
    /\ ChdirFrame

\* lines 59-60: finally: os.chdir(_orig_dir)
ChdirFinally ==
    /\ ch_pc = "finally"
    /\ ch_pc' = "left"
    /\ IF _orig_dir \in ch_dirs
       THEN cwd' = _orig_dir /\ UNCHANGED ch_exc
       ELSE ch_exc' = "FileNotFoundError" /\ UNCHANGED cwd
    /\ UNCHANGED <<ch_dirs, directory, _orig_dir, current_dir>>
    /\ ChdirFrame

ChdirNext == ChdirEnter \/ BodyRmtree \/ BodyReturn \/ BodyRaise \/ ChdirFinally

SpecChdir == ChdirInit /\ [][ChdirNext]_vars

---------------------------------------------------------------------------
(* SpecRewrite: one pass of the loop of _update_sln / _update_proj over one *)
(* file: open_inout, the lines, the close, shutil.copystat, shutil.move.   *)
(* A file is [exists, content, stat]; stat names whose metadata it carries.*)
(* Opening, reading, writing, copystat and move may each fail.             *)

SlnContents ==
    { <<LPlain, LOpen, LInner, LClose, LPlain>>, <<LOpen, LInner>>, <<LPlain, LOtherOpen>>, <<>> }
ProjContents == { <<LTag, LScc, LPlain>>, <<LScc>>, <<LTag>> }

NoFile == [exists |-> FALSE, content |-> <<>>, stat |-> "none"]
File(c, st) == [exists |-> TRUE, content |-> c, stat |-> st]

ArgValues == {"", "set"}

RewriteInit ==
    /\ posix \in BOOLEAN
    /\ f_kind \in {"sln", "proj"}
    /\ rw_args \in [in_file : ArgValues, out_file : ArgValues,
                     in_enc : ArgValues, out_enc : ArgValues]
    /\ rw_content0 \in (IF f_kind = "sln" THEN SlnContents ELSE ProjContents)
    /\ rw_orig \in {NoFile, File(rw_content0, "original")}
    /\ rw_new \in {NoFile, File(<<LPlain>>, "stale")}
    /\ rw_open = {}
    /\ rw_pc = "open_in"
    /\ rw_exc = "none"
    /\ in_fp = <<>> /\ f_pos = 0 /\ in_vcs_region = FALSE /\ out_fp = <<>>
    /\ ProcIdle /\ ChdirIdle /\ TreeIdle /\ DeleteIdle /\ UnbindIdle

RewriteFrame == UNCHANGED <<procVars, chdirVars, treeVars, deleteVars, unbindVars>>

RwRaise(exc) == rw_pc' = "raised" /\ rw_exc' = exc

\* libs.py lines 28-33: the argument checks and open(in_file)
RwOpenIn ==
    /\ rw_pc = "open_in"
    /\ IF rw_args.in_file = "" \/ rw_args.out_file = ""
          \/ rw_args.in_enc = "" \/ rw_args.out_enc = ""
       THEN RwRaise("ValueError") /\ UNCHANGED <<rw_open, in_fp>>
       ELSE IF ~rw_orig.exists
       THEN RwRaise("FileNotFoundError") /\ UNCHANGED <<rw_open, in_fp>>
       ELSE \/ RwRaise("PermissionError") /\ UNCHANGED <<rw_open, in_fp>>
            \/ /\ rw_open' = {"in_fp"}
               /\ in_fp' = rw_orig.content
               /\ rw_pc' = "open_out"
               /\ UNCHANGED rw_exc
    /\ UNCHANGED <<posix, f_kind, rw_args, rw_orig, rw_new, rw_content0,
                   f_pos, in_vcs_region, out_fp>>
    /\ RewriteFrame

\* libs.py line 34: open(out_file, 'w'), before the try
RwOpenOut ==
    /\ rw_pc = "open_out"
    /\ \/ RwRaise("PermissionError") /\ UNCHANGED <<rw_open, rw_new>>
       \/ /\ rw_open' = rw_open \cup {"out_fp"}
          /\ rw_new' = File(<<>>, "new")
          /\ rw_pc' = "loop"
          /\ UNCHANGED rw_exc
    /\ UNCHANGED <<posix, f_kind, rw_args, rw_orig, rw_content0,
                   in_fp, f_pos, in_vcs_region, out_fp>>
    /\ RewriteFrame

\* unbinder.py lines 153-163 / 181-185: one line read, filtered, written
RwLine ==
    /\ rw_pc = "loop"
    /\ f_pos < Len(in_fp)
    /\ LET line == in_fp[f_pos + 1]
           r == IF f_kind = "sln" THEN SlnLine(in_vcs_region, line)
                ELSE [region |-> in_vcs_region, written |-> ProjLine(line)]
       IN  /\ in_vcs_region' = r.region
           /\ out_fp' = out_fp \o r.written
           /\ rw_new' = [rw_new EXCEPT !.content = out_fp \o r.written]
    /\ f_pos' = f_pos + 1
    /\ UNCHANGED <<posix, f_kind, rw_args, rw_orig, rw_open, rw_pc, rw_exc,
                   rw_content0, in_fp>>
    /\ RewriteFrame

\* reading or writing raises inside the with block
RwLineError ==
    /\ rw_pc = "loop"
    /\ f_pos < Len(in_fp)
    /\ rw_pc' = "finally"
    /\ rw_exc' \in {"UnicodeDecodeError", "OSError"}
    /\ UNCHANGED <<posix, f_kind, rw_args, rw_orig, rw_new, rw_open, rw_content0,
                   in_fp, f_pos, in_vcs_region, out_fp>>
    /\ RewriteFrame

\* the for loop ends with in_fp
RwLoopEnd ==
    /\ rw_pc = "loop"
    /\ f_pos = Len(in_fp)
    /\ rw_pc' = "finally"
    /\ UNCHANGED <<posix, f_kind, rw_args, rw_orig, rw_new, rw_open, rw_exc,
                   rw_content0, in_fp, f_pos, in_vcs_region, out_fp>>
    /\ RewriteFrame

\* libs.py lines 37-41: both handles closed, the exception goes on
RwFinally ==
    /\ rw_pc = "finally"
    /\ rw_open' = {}
    /\ rw_pc' = IF rw_exc = "none" THEN "copystat" ELSE "raised"
    /\ UNCHANGED <<posix, f_kind, rw_args, rw_orig, rw_new, rw_exc, rw_content0,
                   in_fp, f_pos, in_vcs_region, out_fp>>
    /\ RewriteFrame

\* unbinder.py lines 165 / 187: shutil.copystat(file, file_new)
RwCopystat ==
    /\ rw_pc = "copystat"
    /\ \/ RwRaise("OSError") /\ UNCHANGED rw_new
       \/ /\ rw_new' = [rw_new EXCEPT !.stat = rw_orig.stat]
          /\ rw_pc' = "move"
          /\ UNCHANGED rw_exc
    /\ UNCHANGED <<posix, f_kind, rw_args, rw_orig, rw_open, rw_content0,
                   in_fp, f_pos, in_vcs_region, out_fp>>
    /\ RewriteFrame

\* unbinder.py lines 166 / 188: shutil.move(file_new, file) begins with
\* os.rename.  On POSIX os.rename replaces an existing destination in one
\* step; where it raises OSError (on Windows always, the destination
\* exists) shutil.move goes on to copy2 and os.unlink.
RwMoveRename ==
    /\ rw_pc = "move"
    /\ \/ /\ posix
          /\ rw_orig' = rw_new
          /\ rw_new' = NoFile
          /\ rw_pc' = "done"
       \/ /\ rw_pc' = "move_open"
          /\ UNCHANGED <<rw_orig, rw_new>>
    /\ UNCHANGED <<posix, f_kind, rw_args, rw_open, rw_exc, rw_content0,
                   in_fp, f_pos, in_vcs_region, out_fp>>
    /\ RewriteFrame

\* copy2 opens the destination for writing, which empties it,
RwMoveTruncate ==
    /\ rw_pc = "move_open"
    /\ \/ RwRaise("PermissionError") /\ UNCHANGED rw_orig
       \/ /\ rw_orig' = [rw_orig EXCEPT !.content = <<>>, !.stat = "new"]
          /\ rw_pc' = "move_copy"
          /\ UNCHANGED rw_exc
    /\ UNCHANGED <<posix, f_kind, rw_args, rw_new, rw_open, rw_content0,
                   in_fp, f_pos, in_vcs_region, out_fp>>
    /\ RewriteFrame

\* copies the content across piece by piece (here line by line), and may
\* fail on the way,
RwMoveCopy ==
    /\ rw_pc = "move_copy"
    /\ Len(rw_orig.content) < Len(rw_new.content)
    /\ \/ RwRaise("OSError") /\ UNCHANGED rw_orig
       \/ /\ rw_orig' = [rw_orig EXCEPT
                 !.content = SubSeq(rw_new.content, 1, Len(rw_orig.content) + 1)]
          /\ UNCHANGED <<rw_pc, rw_exc>>
    /\ UNCHANGED <<posix, f_kind, rw_args, rw_new, rw_open, rw_content0,
                   in_fp, f_pos, in_vcs_region, out_fp>>
    /\ RewriteFrame

\* then copies the metadata and unlinks the source.
RwMoveUnlink ==
    /\ rw_pc = "move_copy"
    /\ Len(rw_orig.content) = Len(rw_new.content)
    /\ rw_orig' = [rw_orig EXCEPT !.stat = rw_new.stat]
    /\ rw_new' = NoFile
    /\ rw_pc' = "done"
    /\ UNCHANGED <<posix, f_kind, rw_args, rw_open, rw_exc, rw_content0,
                   in_fp, f_pos, in_vcs_region, out_fp>>
    /\ RewriteFrame

RewriteNext ==
    \/ RwOpenIn \/ RwOpenOut \/ RwLine \/ RwLineError \/ RwLoopEnd \/ RwFinally
    \/ RwCopystat \/ RwMoveRename \/ RwMoveTruncate \/ RwMoveCopy \/ RwMoveUnlink

SpecRewrite == RewriteInit /\ [][RewriteNext]_vars

---------------------------------------------------------------------------
(* The file system.  fs maps every path of a bounded universe to a node:   *)
(* nothing, a directory, or a file with its lines and its permission:      *)
(* "rw", "ro" (read-only) or "wo" (mode 0o200, what stat.S_IWRITE is on    *)
(* POSIX).  A component's characters are given by NameAtoms.               *)

W == <<"w">>
O == <<"w", "o">>
D == <<"w", "d">>

\* in the order os.walk meets them: top-down
RelDirs == << <<>>, <<"Debug">>, <<"Debug", "sub">>, <<"MyDebug">> >>
RelFiles ==
    << <<"a.sln">>, <<"a.csproj">>, <<"a.pdb">>, <<"a.txt">>,
       <<"Debug", "sub", "x.sln">>, <<"Debug", "sub", "x.pdb">>,
       <<"MyDebug", "k.csproj">> >>

Range(q) == {q[i] : i \in 1..Len(q)}
RelAll == Range(RelDirs) \cup Range(RelFiles)
Roots == {O, D}
AllDirs == {<<>>, W} \cup {r \o rel : r \in Roots, rel \in Range(RelDirs)}
AllFiles == {r \o rel : r \in Roots, rel \in Range(RelFiles)}
AllPaths == AllDirs \cup AllFiles

NameAtoms(name) ==
    CASE name = "Debug"    -> <<"Debug">>
      [] name = "MyDebug"  -> <<"My", "Debug">>
      [] name = "a.sln"    -> <<"a", ".sln">>
      [] name = "x.sln"    -> <<"x", ".sln">>
      [] name = "a.csproj" -> <<"a", ".cs", "proj">>
      [] name = "k.csproj" -> <<"k", ".cs", "proj">>
      [] name = "a.pdb"    -> <<"a", ".pdb">>
      [] name = "x.pdb"    -> <<"x", ".pdb">>
      [] name = "a.txt"    -> <<"a", ".txt">>
      [] OTHER             -> <<name>>

\* the characters of an absolute path: "/" before every component
RECURSIVE PathAtoms(_)
PathAtoms(p) ==
    IF p = <<>> THEN <<>>
    ELSE PathAtoms(Parent(p)) \o <<"/">> \o NameAtoms(p[Len(p)])

Absent == [kind |-> "none", content |-> <<>>, mode |-> "-"]
Dir == [kind |-> "dir", content |-> <<>>, mode |-> "-"]
FileNode(c, m) == [kind |-> "file", content |-> c, mode |-> m]

NodeAt(f, p) == IF p \in DOMAIN f THEN f[p] ELSE Absent
isdir(f, p) == NodeAt(f, p).kind = "dir"
isfile(f, p) == NodeAt(f, p).kind = "file"
exists(f, p) == NodeAt(f, p).kind # "none"

\* the tree below `root` with the nodes of `shape` (relative paths)
TreeAt(root, shape, slnc, projc, m) ==
    [p \in AllPaths |->
        IF p \in {<<>>, W} THEN Dir
        ELSE IF ~Under(p, root) THEN Absent
        ELSE LET rel == SubSeq(p, Len(root) + 1, Len(p))
             IN  IF rel \notin shape THEN Absent
                 ELSE IF rel \in Range(RelDirs) THEN Dir
                 ELSE IF endswith(NameAtoms(rel[Len(rel)]), <<".sln">>) THEN FileNode(slnc, m)
                 ELSE IF endswith(NameAtoms(rel[Len(rel)]), <<"proj">>) THEN FileNode(projc, m)
                 ELSE FileNode(<<LPlain>>, m)]

Shapes == {S \in SUBSET RelAll : <<>> \in S /\ \A r \in S : r = <<>> \/ Parent(r) \in S}

TreeSlnContents == { <<LPlain, LOpen, LInner, LClose, LPlain>>, <<LPlain, LOpen, LInner>> }
TreeProjContent == <<LTag, LScc, LPlain>>

\* shutil.rmtree(p) and os.unlink(p) on an existing entry
rmtree(f, p) == [q \in DOMAIN f |-> IF Under(q, p) THEN Absent ELSE f[q]]
unlink(f, p) == [f EXCEPT ![p] = Absent]

---------------------------------------------------------------------------
(* _collect *)

unnecessary_dir_types == { <<"Debug">>, <<"Release">>, <<"StyleCop">> }
unnecessary_file_types == { <<".vssscc">>, <<".user">>, <<".vspscc">>, <<".pdb">> }

\* str.endswith with a tuple of suffixes
endswith_any(str, suffixes) == \E x \in suffixes : endswith(str, x)

\* the universe in the order a top-down walk lists it
DirsInOrder ==
    << <<>>, W >> \o [i \in 1..Len(RelDirs) |-> O \o RelDirs[i]]
                 \o [i \in 1..Len(RelDirs) |-> D \o RelDirs[i]]
FilesInOrder ==
    [i \in 1..Len(RelFiles) |-> O \o RelFiles[i]] \o [i \in 1..Len(RelFiles) |-> D \o RelFiles[i]]

\* os.walk(top): the directories at and below top, top-down; nothing when
\* top is no directory
walk(f, top) ==
    IF ~isdir(f, top) THEN <<>>
    ELSE SelectSeq(DirsInOrder, LAMBDA q : Under(q, top) /\ isdir(f, q))

\* the filenames os.walk gives for dirpath, each joined to dirpath
filenames(f, dirpath) ==
    SelectSeq(FilesInOrder, LAMBDA q : Parent(q) = dirpath /\ isfile(f, q))

SelectEnds(paths, suffixes) ==
    SelectSeq(paths, LAMBDA q : endswith_any(NameAtoms(q[Len(q)]), suffixes))

\* lines 102-113: what one directory of the walk adds to the four lists
collect_dir(f, dirpath) ==
    LET names == filenames(f, dirpath)
    IN  IF endswith_any(PathAtoms(dirpath), unnecessary_dir_types)
        THEN [del_dirs |-> <<dirpath>>, del_files |-> <<>>, sln_files |-> <<>>, proj_files |-> <<>>]
        ELSE [del_dirs |-> <<>>,
              del_files |-> SelectEnds(names, unnecessary_file_types),
              sln_files |-> SelectEnds(names, {<<".sln">>}),
              proj_files |-> SelectEnds(names, {<<"proj">>})]

RECURSIVE collect_from(_, _)
collect_from(f, dirpaths) ==
    IF dirpaths = <<>>
    THEN [del_dirs |-> <<>>, del_files |-> <<>>, sln_files |-> <<>>, proj_files |-> <<>>]
    ELSE LET here == collect_dir(f, Head(dirpaths))
             rest == collect_from(f, Tail(dirpaths))
         IN  [del_dirs |-> here.del_dirs \o rest.del_dirs,
              del_files |-> here.del_files \o rest.del_files,
              sln_files |-> here.sln_files \o rest.sln_files,
              proj_files |-> here.proj_files \o rest.proj_files]

\* lines 96-115
_collect(f, top) == collect_from(f, walk(f, top))

---------------------------------------------------------------------------
(* SpecDelete: _delete on the lists _collect made of a tree, entry by      *)
(* entry, while someone else may remove entries of the tree.  d_log keeps  *)
(* every attempt: the path and "removed", "warning" (FileNotFoundError,    *)
(* caught and logged) or "error" (another failure, which propagates).      *)

MaxOthers == 2

DeleteInit ==
    /\ \E shape \in Shapes :
          fs = TreeAt(D, shape, <<LPlain>>, TreeProjContent, "rw")
    /\ LET c == _collect(fs, D)
       IN  /\ del_dirs = c.del_dirs
           /\ del_files = c.del_files
           /\ sln_files = c.sln_files
           /\ csproj_files = c.proj_files
    /\ d_pc = "dirs"
    /\ d_pos = 0
    /\ d_exc = "none"
    /\ d_log = <<>>
    /\ d_others \in 0..MaxOthers
    /\ FilterIdle /\ ProcIdle /\ ChdirIdle /\ RewriteIdle /\ UnbindIdle

DeleteFrame ==
    UNCHANGED <<filterVars, procVars, chdirVars, rewriteVars, unbindVars,
                del_dirs, del_files, sln_files, csproj_files>>

Attempt(p, outcome) == [path |-> p, outcome |-> outcome]

\* a _delete whose second loop has no try
DeleteFile_Mut ==
    /\ d_pc = "files"
    /\ d_pos < Len(del_files)
    /\ LET file == del_files[d_pos + 1]
       IN  IF isfile(fs, file)
           THEN /\ fs' = unlink(fs, file)
                /\ d_log' = Append(d_log, Attempt(file, "removed"))
                /\ d_pos' = d_pos + 1
                /\ UNCHANGED <<d_pc, d_exc>>
           ELSE /\ d_log' = Append(d_log, Attempt(file, "error"))
                /\ d_pc' = "raised"
                /\ d_exc' = "FileNotFoundError"
                /\ UNCHANGED <<fs, d_pos>>
    /\ UNCHANGED d_others
    /\ DeleteFrame

\* lines 127-131, one entry: shutil.rmtree(del_dir)
DeleteDir ==
    /\ d_pc = "dirs"
    /\ d_pos < Len(del_dirs)
    /\ LET del_dir == del_dirs[d_pos + 1]
       IN  IF isdir(fs, del_dir)
           THEN \/ /\ fs' = rmtree(fs, del_dir)
                   /\ d_log' = Append(d_log, Attempt(del_dir, "removed"))
                   /\ d_pos' = d_pos + 1
                   /\ UNCHANGED <<d_pc, d_exc>>
                \/ /\ d_log' = Append(d_log, Attempt(del_dir, "error"))
                   /\ d_pc' = "raised"
                   /\ d_exc' = "PermissionError"
                   /\ UNCHANGED <<fs, d_pos>>
           ELSE \* FileNotFoundError: logging.warning(e)
                /\ d_log' = Append(d_log, Attempt(del_dir, "warning"))
                /\ d_pos' = d_pos + 1
                /\ UNCHANGED <<fs, d_pc, d_exc>>
    /\ UNCHANGED d_others
    /\ DeleteFrame

\* line 133: the first loop is over, the second begins
DeleteDirsEnd ==
    /\ d_pc = "dirs"
    /\ d_pos = Len(del_dirs)
    /\ d_pc' = "files"
    /\ d_pos' = 0
    /\ UNCHANGED <<fs, d_exc, d_log, d_others>>
    /\ DeleteFrame

\* lines 133-137, one entry: os.unlink(file)
DeleteFile ==
    /\ d_pc = "files"
    /\ d_pos < Len(del_files)
    /\ LET file == del_files[d_pos + 1]
       IN  IF isfile(fs, file)
           THEN \/ /\ fs' = unlink(fs, file)
                   /\ d_log' = Append(d_log, Attempt(file, "removed"))
                   /\ d_pos' = d_pos + 1
                   /\ UNCHANGED <<d_pc, d_exc>>
                \/ /\ d_log' = Append(d_log, Attempt(file, "error"))
                   /\ d_pc' = "raised"
                   /\ d_exc' = "PermissionError"
                   /\ UNCHANGED <<fs, d_pos>>
           ELSE \* FileNotFoundError: logging.warning(e)
                /\ d_log' = Append(d_log, Attempt(file, "warning"))
                /\ d_pos' = d_pos + 1
                /\ UNCHANGED <<fs, d_pc, d_exc>>
    /\ UNCHANGED d_others
    /\ DeleteFrame

\* the second loop is over: _delete returns
DeleteReturn ==
    /\ d_pc = "files"
    /\ d_pos = Len(del_files)
    /\ d_pc' = "done"
    /\ UNCHANGED <<fs, d_pos, d_exc, d_log, d_others>>
    /\ DeleteFrame

\* someone else removes a file or a directory tree below the root
OtherRemoves ==
    /\ d_pc \in {"dirs", "files"}
    /\ d_others > 0
    /\ \E p \in AllPaths :
          /\ Below(p, D)
          /\ exists(fs, p)
          /\ fs' = rmtree(fs, p)
    /\ d_others' = d_others - 1
    /\ UNCHANGED <<d_pc, d_pos, d_exc, d_log>>
    /\ DeleteFrame

DeleteNext ==
    DeleteDir \/ DeleteDirsEnd \/ DeleteFile \/ DeleteReturn \/ OtherRemoves

SpecDelete == DeleteInit /\ [][DeleteNext]_vars

---------------------------------------------------------------------------
(* SpecUnbind: unbind(orig_dir, dest_dir), run twice on the same           *)
(* arguments, one action per call of its body.  The process starts in /w,  *)
(* the source tree is /w/o, and dest_dir names /w/d (absent before the     *)
(* first run) or the source tree itself, as an absolute path or relative   *)
(* to /w.                                                                  *)

\* shutil.copytree(orig, dest): the tree and its metadata
copytree(f, orig, dest) ==
    [p \in DOMAIN f |->
        IF Under(p, dest) /\ (orig \o SubSeq(p, Len(dest) + 1, Len(p))) \in DOMAIN f
        THEN f[orig \o SubSeq(p, Len(dest) + 1, Len(p))]
        ELSE f[p]]

\* lines 80-84: os.chmod(full_path, stat.S_IWRITE) on every file of the walk
\* that os.access finds not writable
make_writeable(f, top, px) ==
    LET dirs == Range(walk(f, top))
    IN  [p \in DOMAIN f |->
            IF isfile(f, p) /\ Parent(p) \in dirs /\ f[p].mode = "ro"
            THEN [f[p] EXCEPT !.mode = IF px THEN "wo" ELSE "rw"]
            ELSE f[p]]

\* lines 127-137 with no failure other than FileNotFoundError
RECURSIVE delete_all(_, _, _)
delete_all(f, dirs, files) ==
    IF dirs # <<>>
    THEN delete_all(IF isdir(f, Head(dirs)) THEN rmtree(f, Head(dirs)) ELSE f, Tail(dirs), files)
    ELSE IF files # <<>>
    THEN delete_all(IF isfile(f, Head(files)) THEN unlink(f, Head(files)) ELSE f, dirs, Tail(files))
    ELSE f

\* lines 148-166 / 177-188: every file in turn is opened, filtered into
\* file.new, which gets the file's metadata and is moved over it; the first
\* open that fails ends the loop with its exception
RECURSIVE update_all(_, _, _, _)
update_all(f, files, kind, px) ==
    IF files = <<>> THEN [fs |-> f, exc |-> "none"]
    ELSE LET file == Head(files)
         IN  IF ~isfile(f, file) THEN [fs |-> f, exc |-> "FileNotFoundError"]
             ELSE IF px /\ f[file].mode = "wo" THEN [fs |-> f, exc |-> "PermissionError"]
             ELSE update_all(
                    [f EXCEPT ![file].content =
                        IF kind = "sln" THEN SlnFilter(@) ELSE ProjFilter(@)],
                    Tail(files), kind, px)

DestArgs == {AbsPath(D), RelPath(<<"d">>), AbsPath(O), RelPath(<<"o">>)}

UnbindInit ==
    /\ posix \in BOOLEAN
    /\ orig_dir = AbsPath(O)
    /\ dest_dir \in DestArgs
    /\ \E shape \in Shapes, slnc \in TreeSlnContents, m \in {"rw", "ro"} :
          fs = TreeAt(O, shape, slnc, TreeProjContent, m)
    /\ fs_start = fs
    /\ fs_first = <<>>
    /\ cwd = W /\ _orig_dir = <<>> /\ current_dir = <<>>
    /\ del_dirs = <<>> /\ del_files = <<>> /\ sln_files = <<>> /\ csproj_files = <<>>
    /\ ub_pc = "copytree"
    /\ ub_exc = "none"
    /\ ub_run = 1
    /\ rw_args = <<>> /\ rw_orig = <<>> /\ rw_new = <<>>
    /\ rw_open = {} /\ rw_pc = "idle" /\ rw_exc = "none" /\ rw_content0 = <<>>
    /\ FilterIdle /\ ChdirIdle /\ DeleteIdle

UnbindFrame ==
    UNCHANGED <<filterVars, chdirVars, deleteVars, posix, rw_args, rw_orig, rw_new,
                rw_open, rw_pc, rw_exc, rw_content0, orig_dir, dest_dir, fs_start>>

\* lines 38, 67-69: _copytree
UbCopytree ==
    /\ ub_pc = "copytree"
    /\ fs' = IF ~exists(fs, abspath(cwd, dest_dir))
             THEN copytree(fs, abspath(cwd, orig_dir), abspath(cwd, dest_dir))
             ELSE fs
    /\ ub_pc' = "chdir"
    /\ UNCHANGED <<cwd, _orig_dir, current_dir, del_dirs, del_files, sln_files,
                   csproj_files, ub_exc, ub_run, fs_first>>
    /\ UnbindFrame

\* line 40: with chdir(dest_dir) as current_dir
UbChdir ==
    /\ ub_pc = "chdir"
    /\ IF ~exists(fs, abspath(cwd, dest_dir))
       THEN /\ ub_pc' = "aborted"
            /\ ub_exc' = "ValueError"
            /\ UNCHANGED <<cwd, _orig_dir, current_dir>>
       ELSE /\ _orig_dir' = abspath(cwd, RelPath(<<".">>))
            /\ cwd' = abspath(cwd, dest_dir)
            /\ current_dir' = chdir_yield(cwd, dest_dir)
            /\ ub_pc' = "make_writeable"
            /\ UNCHANGED ub_exc
    /\ UNCHANGED <<fs, del_dirs, del_files, sln_files, csproj_files, ub_run, fs_first>>
    /\ UnbindFrame

\* line 42
UbMakeWriteable ==
    /\ ub_pc = "make_writeable"
    /\ fs' = make_writeable(fs, current_dir, posix)
    /\ ub_pc' = "collect"
    /\ UNCHANGED <<cwd, _orig_dir, current_dir, del_dirs, del_files, sln_files,
                   csproj_files, ub_exc, ub_run, fs_first>>
    /\ UnbindFrame

\* line 45
UbCollect ==
    /\ ub_pc = "collect"
    /\ LET c == _collect(fs, current_dir)
       IN  /\ del_dirs' = c.del_dirs
           /\ del_files' = c.del_files
           /\ sln_files' = c.sln_files
           /\ csproj_files' = c.proj_files
    /\ ub_pc' = "delete"
    /\ UNCHANGED <<fs, cwd, _orig_dir, current_dir, ub_exc, ub_run, fs_first>>
    /\ UnbindFrame

\* line 48
UbDelete ==
    /\ ub_pc = "delete"
    /\ fs' = delete_all(fs, del_dirs, del_files)
    /\ ub_pc' = "update_sln"
    /\ UNCHANGED <<cwd, _orig_dir, current_dir, del_dirs, del_files, sln_files,
                   csproj_files, ub_exc, ub_run, fs_first>>
    /\ UnbindFrame

\* line 51
UbUpdateSln ==
    /\ ub_pc = "update_sln"
    /\ LET r == update_all(fs, sln_files, "sln", posix)
       IN  /\ fs' = r.fs
           /\ ub_exc' = r.exc
           /\ ub_pc' = IF r.exc = "none" THEN "update_proj" ELSE "exit"
    /\ UNCHANGED <<cwd, _orig_dir, current_dir, del_dirs, del_files, sln_files,
                   csproj_files, ub_run, fs_first>>
    /\ UnbindFrame

\* line 54
UbUpdateProj ==
    /\ ub_pc = "update_proj"
    /\ LET r == update_all(fs, csproj_files, "proj", posix)
       IN  /\ fs' = r.fs
           /\ ub_exc' = r.exc
    /\ ub_pc' = "exit"
    /\ UNCHANGED <<cwd, _orig_dir, current_dir, del_dirs, del_files, sln_files,
                   csproj_files, ub_run, fs_first>>
    /\ UnbindFrame

\* the with block is left (libs.py lines 59-60), then line 56 or the
\* exception goes on
UbExit ==
    /\ ub_pc = "exit"
    /\ cwd' = _orig_dir
    /\ ub_pc' = IF ub_exc = "none" THEN "returned" ELSE "aborted"
    /\ UNCHANGED <<fs, _orig_dir, current_dir, del_dirs, del_files, sln_files,
                   csproj_files, ub_exc, ub_run, fs_first>>
    /\ UnbindFrame

\* unbind is called again with the same arguments
UbAgain ==
    /\ ub_pc \in {"returned", "aborted"}
    /\ ub_run = 1
    /\ ub_run' = 2
    /\ fs_first' = fs
    /\ ub_pc' = "copytree"
    /\ ub_exc' = "none"
    /\ del_dirs' = <<>> /\ del_files' = <<>> /\ sln_files' = <<>> /\ csproj_files' = <<>>
    /\ UNCHANGED <<fs, cwd, _orig_dir, current_dir>>
    /\ UnbindFrame

UnbindNext ==
    \/ UbCopytree \/ UbChdir \/ UbMakeWriteable \/ UbCollect \/ UbDelete
    \/ UbUpdateSln \/ UbUpdateProj \/ UbExit \/ UbAgain

SpecUnbind == UnbindInit /\ [][UnbindNext]_vars

---------------------------------------------------------------------------
(* The claims *)

ReadSoFar == SubSeq(in_fp, 1, f_pos)
IsOpener(line) ==
    startswith(strip(line), GlobalSection) /\ contains(strip(line), VersionControl)
IsCloser(line) == contains(strip(line), EndGlobalSection)

\* the two-state filter in the words of C3: [region, out] after `lines`
RECURSIVE C3_FilterAsClaimed(_)
C3_FilterAsClaimed(lines) ==
    IF lines = <<>> THEN [region |-> FALSE, out |-> <<>>]
    ELSE LET before == C3_FilterAsClaimed(SubSeq(lines, 1, Len(lines) - 1))
             line == lines[Len(lines)]
         IN  IF ~before.region
             THEN IF IsOpener(line) THEN [region |-> TRUE, out |-> before.out]
                  ELSE [region |-> FALSE, out |-> Append(before.out, line)]
             ELSE [region |-> ~IsCloser(line), out |-> before.out]

\* the same, except that an opening line that also holds "EndGlobalSection"
\* leaves the state outside
RECURSIVE C3_FilterAmended(_)
C3_FilterAmended(lines) ==
    IF lines = <<>> THEN [region |-> FALSE, out |-> <<>>]
    ELSE LET before == C3_FilterAmended(SubSeq(lines, 1, Len(lines) - 1))
             line == lines[Len(lines)]
         IN  IF ~before.region
             THEN IF IsOpener(line) THEN [region |-> ~IsCloser(line), out |-> before.out]
                  ELSE [region |-> FALSE, out |-> Append(before.out, line)]
             ELSE [region |-> ~IsCloser(line), out |-> before.out]

\* C3 as stated: after every line read, what _update_sln has written is the
\* output of the two-state filter of the claim (an opening line is dropped
\* and always puts the filter inside the region; inside, every line is
\* dropped and a line holding "EndGlobalSection" puts it outside again).
C3_OutputAsClaimed ==
    f_kind = "sln" => out_fp = C3_FilterAsClaimed(ReadSoFar).out

\* C3 amended: after every line read, what _update_sln has written and its
\* flag are those of the two-state filter in which an opening line that
\* itself holds "EndGlobalSection" is dropped and leaves the state outside;
\* a region that never closes drops every line to the end of the file.
C3_OutputIsTwoStateFilter ==
    f_kind = "sln" =>
        /\ out_fp = C3_FilterAmended(ReadSoFar).out
        /\ in_vcs_region = C3_FilterAmended(ReadSoFar).region

\* a whole file read: a one-line region, a copied line, then a region that
\* never closes
C3_Witness ==
    /\ f_kind = "sln"
    /\ in_fp = <<LOpenClose, LPlain, LOpen, LInner>>
    /\ f_pos = Len(in_fp)
    /\ out_fp = <<LPlain>>
    /\ in_vcs_region

\* C4 as stated: inside the scope the value chdir(D) yielded is the
\* absolute path of D (D taken relative to the working directory at entry)
\* and is the process working directory.
C4_YieldIsAbsolutePathOfTarget ==
    ch_pc = "body" =>
        /\ current_dir = abspath(_orig_dir, directory)
        /\ current_dir = cwd

\* C5 as stated: once the scope of chdir(D) has been left, after a body
\* that returned or raised, the working directory is the one recorded at
\* entry.
C5_RestoredOnExit ==
    (ch_pc = "left" /\ ch_exc # "ValueError") => cwd = _orig_dir

\* C5 amended: once the scope of chdir(D) has been left, after a body that
\* returned or raised, the working directory is the one recorded at entry,
\* provided that directory still exists when the scope is left.
C5_RestoredOnExitIfStillThere ==
    (ch_pc = "left" /\ ch_exc # "ValueError" /\ _orig_dir \in ch_dirs) => cwd = _orig_dir

\* the body raised in another directory and the scope was left
C5_Witness ==
    /\ ch_pc = "left"
    /\ ch_exc = "BodyError"
    /\ abspath(_orig_dir, directory) # _orig_dir
    /\ _orig_dir \in ch_dirs
    /\ cwd = _orig_dir

\* C6 as stated: whenever open_inout has been left (its error propagates,
\* or the caller's scope has ended) no handle it opened is open.
C6_NoHandleLeftOpen ==
    rw_pc \in {"raised", "copystat", "move", "move_open", "move_copy", "done"} => rw_open = {}

\* C8 as stated: at every step of a rewrite and after a failure at any
\* step, the original path holds the complete original content or the
\* complete filtered output, and it changes only after the whole input
\* was streamed.
C8_OriginalNeverPartial ==
    rw_orig # <<>> /\ rw_orig.exists =>
        /\ rw_orig.content \in
              {rw_content0,
               IF f_kind = "sln" THEN SlnFilter(rw_content0) ELSE ProjFilter(rw_content0)}
        /\ rw_orig.content # rw_content0 => f_pos = Len(in_fp)

AllEntries == del_dirs \o del_files
Handled == [i \in 1..Len(d_log) |-> d_log[i].path]

\* C9: a not-found on an entry never ends _delete: the attempts made are
\* the entries of both lists in order, none skipped; while entries remain
\* _delete can go on; it is left with an exception only through a failure
\* that is not a not-found, on the entry attempted last; and when it
\* returns every entry was attempted.
C9_NotFoundIsTolerated ==
    d_pc # "idle" =>
        /\ d_pc \in {"dirs", "files"} =>
              ENABLED (DeleteDir \/ DeleteDirsEnd \/ DeleteFile \/ DeleteReturn)
        /\ Len(d_log) <= Len(AllEntries)
        /\ Handled = SubSeq(AllEntries, 1, Len(d_log))
        /\ \A i \in 1..Len(d_log) :
              d_log[i].outcome = "error" => (i = Len(d_log) /\ d_pc = "raised")
        /\ d_pc = "raised" =>
              /\ d_exc # "FileNotFoundError"
              /\ d_log # <<>> /\ d_log[Len(d_log)].outcome = "error"
        /\ d_pc = "done" => Len(d_log) = Len(AllEntries)

\* _delete returned after a not-found on one entry and a removal of a
\* later one
C9_Witness ==
    /\ d_pc = "done"
    /\ \E i, j \in 1..Len(d_log) :
          /\ i < j
          /\ d_log[i].outcome = "warning"
          /\ d_log[j].outcome = "removed"

Classified == Range(del_files) \cup Range(sln_files) \cup Range(csproj_files)

\* C2 as stated: no path _collect returned in files-to-delete,
\* solution-files or project-files lies beneath a directory it returned in
\* directories-to-delete.
C2_NothingListedBelowDeletedDir ==
    ub_pc # "idle" =>
        \A dd \in Range(del_dirs), file \in Classified : ~Below(file, dd)

\* C10 as stated: a directory visited by _collect is in
\* directories-to-delete exactly when its last component is "Debug",
\* "Release" or "StyleCop", and every other visited directory has its
\* direct files classified.
C10_RecordedIffNameIsListed ==
    ub_pc = "delete" =>
        \A dirpath \in Range(walk(fs, current_dir)) :
            /\ dirpath \in Range(del_dirs)
                  <=> dirpath[Len(dirpath)] \in {"Debug", "Release", "StyleCop"}
            /\ dirpath \notin Range(del_dirs) =>
                  \A file \in Range(filenames(fs, dirpath)) :
                      LET name == NameAtoms(file[Len(file)])
                      IN  /\ endswith_any(name, unnecessary_file_types) <=> file \in Range(del_files)
                          /\ endswith(name, <<".sln">>) <=> file \in Range(sln_files)
                          /\ endswith(name, <<"proj">>) <=> file \in Range(csproj_files)

\* C1 as stated: whatever the arguments, nothing at or below orig_dir is
\* created, deleted, chmod-ed or rewritten by a run of unbind.
C1_SourceTreeUntouched ==
    ub_pc # "idle" =>
        \A p \in AllPaths : Under(p, abspath(W, orig_dir)) => fs[p] = fs_start[p]

\* C7 as stated: after the second run of unbind on the same arguments the
\* destination tree (its files and directories and the content of every
\* file) is what it was after the first run.
C7_SecondRunChangesNothing ==
    (ub_run = 2 /\ ub_pc \in {"returned", "aborted"}) =>
        \A p \in AllPaths :
            Under(p, abspath(W, dest_dir)) =>
                /\ fs[p].kind = fs_first[p].kind
                /\ fs[p].content = fs_first[p].content

=============================================================================
